---- MODULE Spec2Model ----
(***************************************************************************)
(* Model of the semantic linter (src/main.go): one run of main() as a      *)
(* linear state machine                                                    *)
(*   setup -> pull-request number -> repo info -> changed files ->         *)
(*   filterFiles -> loop(analyzePatch) -> postResults -> hasErrors -> exit *)
(* together with the pure functions it calls (matchAny, filterFiles,       *)
(* the three Analyze adapters, postResults' report, hasErrors).            *)
(***************************************************************************)
EXTENDS Integers, Sequences, FiniteSets, TLC

(***************************************************************************)
(* Bounds of the model.                                                    *)
(***************************************************************************)
MaxFiles == 2
MaxPatterns == 2
MaxIssues == 2

BoundedSeq(S, n) == UNION {[1..k -> S] : k \in 0..n}

Range(s) == {s[i] : i \in 1..Len(s)}

IsInjective(s) == \A i, j \in 1..Len(s) : s[i] = s[j] => i = j

(***************************************************************************)
(* Values.                                                                 *)
(***************************************************************************)
NoError == "<nil>"
NilPatch == <<"<nil patch>">>
NotExited == -1
PanicStatus == 2

FileNames == {"main.go", "main_test.go", "README.md", "src/util.go"}

\* texts (patches, the rules document, the prompt template, header values,
\* the endpoint) are sequences of tokens
PatchOf == [n \in FileNames |->
              CASE n = "main.go" -> <<"P1">>
                [] n = "main_test.go" -> <<"P2">>
                [] n = "README.md" -> <<"P3">>
                [] OTHER -> <<"P4">>]

\* Glob patterns a configuration may hold; "[" is an unterminated character
\* class, which doublestar.Match reports as ErrBadPattern.
Patterns == {"*.go", "*_test.go", "**", "["}

BadPatterns == {"["}

\* doublestar.Match (main.go:521) on the patterns and paths above: "*" does
\* not cross a "/", "**" does; a malformed pattern is an error for every
\* path, a well-formed one never is.
MatchTable == [p \in Patterns |->
                 CASE p = "*.go" -> {"main.go", "main_test.go"}
                   [] p = "*_test.go" -> {"main_test.go"}
                   [] p = "**" -> FileNames
                   [] OTHER -> {}]

Match(pattern, path) ==
    IF pattern \in BadPatterns
    THEN [match |-> FALSE, err |-> pattern]
    ELSE [match |-> path \in MatchTable[pattern], err |-> NoError]

(***************************************************************************)
(* matchAny (main.go:519-530): first error or first match ends the loop.   *)
(***************************************************************************)
RECURSIVE matchAnyFrom(_, _, _)
matchAnyFrom(path, patterns, i) ==
    IF i > Len(patterns)
    THEN [match |-> FALSE, err |-> NoError]
    ELSE LET r == Match(patterns[i], path) IN
         IF r.err # NoError THEN [match |-> FALSE, err |-> r.err]
         ELSE IF r.match THEN [match |-> TRUE, err |-> NoError]
         ELSE matchAnyFrom(path, patterns, i + 1)

\* the same loop with a malformed pattern skipped instead of reported
RECURSIVE matchAnySkipBadFrom(_, _, _)
matchAnySkipBadFrom(path, patterns, i) ==
    IF i > Len(patterns)
    THEN [match |-> FALSE, err |-> NoError]
    ELSE LET r == Match(patterns[i], path) IN
         IF r.err = NoError /\ r.match THEN [match |-> TRUE, err |-> NoError]
         ELSE matchAnySkipBadFrom(path, patterns, i + 1)

matchAnySkipBad(path, patterns) == matchAnySkipBadFrom(path, patterns, 1)

matchAny(path, patterns) == matchAnyFrom(path, patterns, 1)

(***************************************************************************)
(* filterFiles (main.go:501-517).  The result is the pair the Go function  *)
(* returns: on a pattern error the list is nil (here <<>>) and err is the  *)
(* pattern that failed.                                                    *)
(***************************************************************************)
RECURSIVE filterFilesFrom(_, _, _, _)
filterFilesFrom(files, config, i, filteredFiles) ==
    IF i > Len(files)
    THEN [files |-> filteredFiles, err |-> NoError]
    ELSE LET file == files[i]
             included == matchAny(file.Filename, config.IncludedFiles)
             excluded == matchAny(file.Filename, config.ExcludedFiles)
         IN  IF included.err # NoError THEN [files |-> <<>>, err |-> included.err]
             ELSE IF excluded.err # NoError THEN [files |-> <<>>, err |-> excluded.err]
             ELSE IF included.match /\ ~excluded.match
                  THEN filterFilesFrom(files, config, i + 1, Append(filteredFiles, file))
                  ELSE filterFilesFrom(files, config, i + 1, filteredFiles)

\* filterFiles with the exclude test dropped
RECURSIVE filterFilesNoExcludeFrom(_, _, _, _)
filterFilesNoExcludeFrom(files, config, i, filteredFiles) ==
    IF i > Len(files)
    THEN [files |-> filteredFiles, err |-> NoError]
    ELSE LET file == files[i]
             included == matchAny(file.Filename, config.IncludedFiles)
             excluded == matchAny(file.Filename, config.ExcludedFiles)
         IN  IF included.err # NoError THEN [files |-> <<>>, err |-> included.err]
             ELSE IF excluded.err # NoError THEN [files |-> <<>>, err |-> excluded.err]
             ELSE IF included.match
                  THEN filterFilesNoExcludeFrom(files, config, i + 1, Append(filteredFiles, file))
                  ELSE filterFilesNoExcludeFrom(files, config, i + 1, filteredFiles)

filterFilesNoExclude(files, config) == filterFilesNoExcludeFrom(files, config, 1, <<>>)

\* filterFiles with an empty include set read as "include everything"
RECURSIVE filterFilesEmptyIncludesAllFrom(_, _, _, _)
filterFilesEmptyIncludesAllFrom(files, config, i, filteredFiles) ==
    IF i > Len(files)
    THEN [files |-> filteredFiles, err |-> NoError]
    ELSE LET file == files[i]
             included == matchAny(file.Filename, config.IncludedFiles)
             excluded == matchAny(file.Filename, config.ExcludedFiles)
         IN  IF included.err # NoError THEN [files |-> <<>>, err |-> included.err]
             ELSE IF excluded.err # NoError THEN [files |-> <<>>, err |-> excluded.err]
             ELSE IF (included.match \/ Len(config.IncludedFiles) = 0) /\ ~excluded.match
                  THEN filterFilesEmptyIncludesAllFrom(files, config, i + 1, Append(filteredFiles, file))
                  ELSE filterFilesEmptyIncludesAllFrom(files, config, i + 1, filteredFiles)

filterFilesEmptyIncludesAll(files, config) ==
    filterFilesEmptyIncludesAllFrom(files, config, 1, <<>>)

filterFiles(files, config) == filterFilesFrom(files, config, 1, <<>>)

(***************************************************************************)
(* Issues and severity classes (main.go:50-53, 64-68).                     *)
(***************************************************************************)
Issues == { [Type |-> "naming", Message |-> "bad name", Suggestion |-> "rename to camelCase"],
            [Type |-> "style", Message |-> "long line", Suggestion |-> ""],
            [Type |-> "misc", Message |-> "note", Suggestion |-> ""] }

\* the issue lists an answer may hold: up to MaxIssues different issues
IssueLists == {l \in BoundedSeq(Issues, MaxIssues) : IsInjective(l)}

Severities == { [Error |-> <<"naming">>, Warning |-> <<"style">>],
                [Error |-> <<"style", "naming">>, Warning |-> <<>>] }

(***************************************************************************)
(* Answer texts are sequences of tokens: the opening fence marker (three   *)
(* backticks plus "json"), the closing fence marker (three backticks), a   *)
(* newline, a JSON document holding an issue list, or text that is not     *)
(* JSON.                                                                   *)
(***************************************************************************)
Tok(t) == [t |-> t, issues |-> <<>>]

FenceJson == Tok("fence-json")

Fence == Tok("fence")

NL == Tok("newline")

Junk == Tok("not json")

Json(issues) == [t |-> "json", issues |-> issues]

\* strings.TrimPrefix / strings.TrimSuffix / strings.TrimSpace
\* (main.go:164-166) on token sequences
TrimPrefix(s, tok) == IF Len(s) > 0 /\ s[1] = tok THEN Tail(s) ELSE s

TrimSuffix(s, tok) ==
    IF Len(s) > 0 /\ s[Len(s)] = tok THEN SubSeq(s, 1, Len(s) - 1) ELSE s

RECURSIVE TrimLeft(_)
TrimLeft(s) == IF Len(s) > 0 /\ s[1] = NL THEN TrimLeft(Tail(s)) ELSE s

RECURSIVE TrimRight(_)
TrimRight(s) ==
    IF Len(s) > 0 /\ s[Len(s)] = NL THEN TrimRight(SubSeq(s, 1, Len(s) - 1)) ELSE s

TrimSpace(s) == TrimRight(TrimLeft(s))

\* json.Unmarshal into AnalysisResult (main.go:168-171): exactly one JSON
\* document, nothing before or after it
Unmarshal(s) ==
    IF Len(s) = 1 /\ s[1].t = "json"
    THEN [issues |-> s[1].issues, err |-> NoError]
    ELSE [issues |-> <<>>, err |-> "failed to unmarshal analysis result"]

\* post-processing that trims the whitespace before it strips the markers
parseAnswerTrimFirst(text) ==
    Unmarshal(TrimSuffix(TrimPrefix(TrimSpace(text), FenceJson), Fence))

\* main.go:163-173, 241-251, 319-329: the shared post-processing
parseAnswer(text) ==
    Unmarshal(TrimSpace(TrimSuffix(TrimPrefix(text, FenceJson), Fence)))

(***************************************************************************)
(* What the transport hands back to one Analyze call: whether the request  *)
(* was sent, the HTTP status, whether the body decodes, the number of      *)
(* candidates / choices / content blocks, the number of parts of the first *)
(* candidate (variant A only) and the answer text.                         *)
(***************************************************************************)
StatusOK == 200

Resp(sendOk, status, decodeOk, items, parts, text) ==
    [sendOk |-> sendOk, status |-> status, decodeOk |-> decodeOk,
     items |-> items, parts |-> parts, text |-> text]

AnswerTexts ==
    {<<Json(d)>> : d \in IssueLists}
    \cup {<<FenceJson, NL, Json(d), NL, Fence>> : d \in BoundedSeq(Issues, 1)}
    \cup {<<Junk>>, <<>>}

\* the answers an adapter is checked with on its own: those of Responses and
\* answer texts with one marker only, a bare opening marker, or whitespace
AdapterTexts ==
    AnswerTexts
    \cup UNION {{<<FenceJson, NL, Json(d)>>, <<Json(d), NL, Fence>>,
                 <<NL, Json(d), NL>>, <<Fence, NL, Json(d), NL, Fence>>,
                 <<NL, FenceJson, NL, Json(d), NL, Fence>>,
                 <<FenceJson, NL, Json(d), NL, Fence, NL>>} : d \in BoundedSeq(Issues, 1)}

Responses ==
    {Resp(TRUE, StatusOK, TRUE, 1, 1, t) : t \in AnswerTexts}
    \cup {Resp(FALSE, 0, FALSE, 0, 0, <<>>),
          Resp(TRUE, 500, TRUE, 1, 1, <<Json(<<>>)>>),
          Resp(TRUE, 201, TRUE, 1, 1, <<Json(<<>>)>>),
          Resp(TRUE, StatusOK, FALSE, 0, 0, <<>>),
          Resp(TRUE, StatusOK, TRUE, 0, 0, <<>>),
          Resp(TRUE, StatusOK, TRUE, 1, 0, <<>>)}

Failed(msg) == [issues |-> <<>>, err |-> msg]

(***************************************************************************)
(* Placeholders and strings.Replace on token sequences: the first n        *)
(* occurrences of old are replaced, all of them when n < 0; the inserted   *)
(* text is not scanned again by the same call.                             *)
(***************************************************************************)
RulesPH == "{rules}"

CodePH == "{code}"

KeyPH == "{{AI_API_KEY}}"

RECURSIVE Replace(_, _, _, _)
Replace(s, old, new, n) ==
    IF n = 0 \/ s = <<>> THEN s
    ELSE IF Head(s) = old THEN new \o Replace(Tail(s), old, new, n - 1)
    ELSE <<Head(s)>> \o Replace(Tail(s), old, new, n)

\* the two strings.Replace calls of analyzePatch (main.go:533-534)
buildPrompt(template, rulesText, patch) ==
    Replace(Replace(template, RulesPH, rulesText, 1), CodePH, patch, 1)

(***************************************************************************)
(* The request each adapter builds (main.go:114-140, 195-218, 272-296):    *)
(* the endpoint, the header values and the prompt in the body.             *)
(* http.NewRequest fails on an endpoint that is no URL.                    *)
(***************************************************************************)
BadURL == "%zz"

NewRequest(endpoint, headers, prompt) ==
    [endpoint |-> endpoint, headers |-> headers, body |-> prompt,
     err |-> IF BadURL \in Range(endpoint) THEN "failed to create request" ELSE NoError]

GeminiNewRequest(cfg, prompt, apiKey) ==
    NewRequest(Replace(cfg.APIEndpoint, KeyPH, <<apiKey>>, -1), cfg.Headers, prompt)

OpenAINewRequest(cfg, prompt, apiKey) ==
    NewRequest(cfg.APIEndpoint,
               [k \in DOMAIN cfg.Headers |-> Replace(cfg.Headers[k], KeyPH, <<apiKey>>, -1)],
               prompt)

AnthropicNewRequest(cfg, prompt, apiKey) ==
    NewRequest(cfg.APIEndpoint,
               [k \in DOMAIN cfg.Headers |-> Replace(cfg.Headers[k], KeyPH, <<apiKey>>, -1)],
               prompt)

\* the request of the provider selected at main.go:369-380
ProviderRequest(provider, config, prompt, apiKey) ==
    CASE provider = "gemini" -> GeminiNewRequest(config.AI.Gemini, prompt, apiKey)
      [] provider = "openai" -> OpenAINewRequest(config.AI.OpenAI, prompt, apiKey)
      [] OTHER -> AnthropicNewRequest(config.AI.Anthropic, prompt, apiKey)

\* variant A accepting every 2xx status
GeminiAnalyzeAny2xx(resp) ==
    IF ~resp.sendOk THEN Failed("failed to send request")
    ELSE IF resp.status \notin 200..299 THEN Failed("API request failed")
    ELSE IF ~resp.decodeOk THEN Failed("failed to decode gemini response")
    ELSE IF resp.items = 0 \/ resp.parts = 0
         THEN Failed("no content found in gemini response")
    ELSE parseAnswer(resp.text)

\* GeminiProvider.Analyze (main.go:113-174)
GeminiAnalyze(resp) ==
    IF ~resp.sendOk THEN Failed("failed to send request")
    ELSE IF resp.status # StatusOK THEN Failed("API request failed")
    ELSE IF ~resp.decodeOk THEN Failed("failed to decode gemini response")
    ELSE IF resp.items = 0 \/ resp.parts = 0
         THEN Failed("no content found in gemini response")
    ELSE parseAnswer(resp.text)

\* variant B answering a response without choices with an empty result
OpenAIAnalyzeEmptyOnNoChoices(resp) ==
    IF ~resp.sendOk THEN Failed("failed to send request")
    ELSE IF resp.status # StatusOK THEN Failed("API request failed")
    ELSE IF ~resp.decodeOk THEN Failed("failed to decode openai response")
    ELSE IF resp.items = 0 THEN [issues |-> <<>>, err |-> NoError]
    ELSE parseAnswer(resp.text)

\* OpenAIProvider.Analyze (main.go:194-252)
OpenAIAnalyze(resp) ==
    IF ~resp.sendOk THEN Failed("failed to send request")
    ELSE IF resp.status # StatusOK THEN Failed("API request failed")
    ELSE IF ~resp.decodeOk THEN Failed("failed to decode openai response")
    ELSE IF resp.items = 0 THEN Failed("no choices found in openai response")
    ELSE parseAnswer(resp.text)

\* variant C parsing the answer text as it comes, markers included
AnthropicAnalyzeNoStrip(resp) ==
    IF ~resp.sendOk THEN Failed("failed to send request")
    ELSE IF resp.status # StatusOK THEN Failed("API request failed")
    ELSE IF ~resp.decodeOk THEN Failed("failed to decode anthropic response")
    ELSE IF resp.items = 0 THEN Failed("no content found in anthropic response")
    ELSE Unmarshal(TrimSpace(resp.text))

\* AnthropicProvider.Analyze (main.go:271-330)
AnthropicAnalyze(resp) ==
    IF ~resp.sendOk THEN Failed("failed to send request")
    ELSE IF resp.status # StatusOK THEN Failed("API request failed")
    ELSE IF ~resp.decodeOk THEN Failed("failed to decode anthropic response")
    ELSE IF resp.items = 0 THEN Failed("no content found in anthropic response")
    ELSE parseAnswer(resp.text)

\* dispatch through the LLMProvider interface (main.go:97-99, 369-380)
Analyze(provider, resp) ==
    CASE provider = "gemini" -> GeminiAnalyze(resp)
      [] provider = "openai" -> OpenAIAnalyze(resp)
      [] OTHER -> AnthropicAnalyze(resp)

\* provider.Analyze as a whole: the request is built, and if that works the
\* response of the transport is handled
ProviderAnalyze(provider, config, prompt, apiKey, resp) ==
    LET req == ProviderRequest(provider, config, prompt, apiKey)
    IN  IF req.err # NoError THEN Failed(req.err) ELSE Analyze(provider, resp)

\* analyzePatch (main.go:532-537): the prompt goes out with the request; the
\* result is whatever the selected adapter makes of the response
analyzePatch(patch, config, rulesText, apiKey, provider, resp) ==
    ProviderAnalyze(provider, config,
                    buildPrompt(config.AI.PromptTemplate, rulesText, patch), apiKey, resp)

(***************************************************************************)
(* hasErrors (main.go:570-581), loop by loop.                              *)
(***************************************************************************)
RECURSIVE isErrorType(_, _, _)
isErrorType(type, errorTypes, k) ==
    IF k > Len(errorTypes) THEN FALSE
    ELSE IF type = errorTypes[k] THEN TRUE
    ELSE isErrorType(type, errorTypes, k + 1)

RECURSIVE issuesHaveError(_, _, _)
issuesHaveError(issues, errorTypes, j) ==
    IF j > Len(issues) THEN FALSE
    ELSE IF isErrorType(issues[j].Type, errorTypes, 1) THEN TRUE
    ELSE issuesHaveError(issues, errorTypes, j + 1)

RECURSIVE hasErrorsFrom(_, _, _)
hasErrorsFrom(rs, errorTypes, i) ==
    IF i > Len(rs) THEN FALSE
    ELSE IF issuesHaveError(rs[i].Issues, errorTypes, 1) THEN TRUE
    ELSE hasErrorsFrom(rs, errorTypes, i + 1)

\* hasErrors that also counts the warning types as blocking
hasErrorsAnySeverity(rs, cfg) ==
    hasErrorsFrom(rs, cfg.Severity.Error \o cfg.Severity.Warning, 1)

hasErrors(rs, cfg) == hasErrorsFrom(rs, cfg.Severity.Error, 1)

(***************************************************************************)
(* The comment body built by postResults (main.go:540-563): the heading    *)
(* and one section per result that has issues, one line per issue.         *)
(***************************************************************************)
Heading == "## Semantic Linting Results"

ErrorIcon == "error glyph"

WarningIcon == "warning glyph"

\* the glyph choice that takes every type outside the warning set as an error
severityIconErrorByDefault(issue, cfg) ==
    IF issue.Type \in Range(cfg.Severity.Warning) THEN WarningIcon ELSE ErrorIcon

severityIcon(issue, cfg) ==
    IF isErrorType(issue.Type, cfg.Severity.Error, 1) THEN ErrorIcon ELSE WarningIcon

issueLines(issues, cfg) ==
    [j \in 1..Len(issues) |->
        [icon |-> severityIcon(issues[j], cfg), type |-> issues[j].Type,
         message |-> issues[j].Message, suggestion |-> issues[j].Suggestion]]

RECURSIVE sectionsFrom(_, _, _)
sectionsFrom(rs, cfg, i) ==
    IF i > Len(rs) THEN <<>>
    ELSE IF Len(rs[i].Issues) > 0
         THEN <<[filename |-> rs[i].Filename, lines |-> issueLines(rs[i].Issues, cfg)]>>
              \o sectionsFrom(rs, cfg, i + 1)
         ELSE sectionsFrom(rs, cfg, i + 1)

\* the report with a section for every result, issues or not
commentStringEverySection(rs, cfg) ==
    [heading |-> Heading,
     sections |-> [i \in 1..Len(rs) |->
                     [filename |-> rs[i].Filename, lines |-> issueLines(rs[i].Issues, cfg)]]]

commentString(rs, cfg) == [heading |-> Heading, sections |-> sectionsFrom(rs, cfg, 1)]

AdapterResponses ==
    Responses
    \cup {Resp(TRUE, StatusOK, TRUE, 1, 1, t) : t \in AdapterTexts}
    \cup {Resp(TRUE, st, TRUE, 1, 1, <<Json(<<>>)>>) : st \in {199, 204, 299, 300, 404}}

(***************************************************************************)
(* The inputs of a run.                                                    *)
(***************************************************************************)
ProviderTags == {"gemini", "openai", "anthropic", "llama"}

SupportedProviders == {"gemini", "openai", "anthropic"}

\* GeminiConfig / OpenAIConfig / AnthropicConfig: the endpoint and the header
\* map (header name -> value)
ProviderConfig(endpoint, headers) == [APIEndpoint |-> endpoint, Headers |-> headers]

NoHeaders == [k \in {} |-> <<>>]

ZeroProviderConfig == ProviderConfig(<<>>, NoHeaders)

\* the zero Config value
ZeroConfig == [IncludedFiles |-> <<>>, ExcludedFiles |-> <<>>,
               AI |-> [Provider |-> "", PromptTemplate |-> <<>>,
                       Gemini |-> ZeroProviderConfig, OpenAI |-> ZeroProviderConfig,
                       Anthropic |-> ZeroProviderConfig],
               Severity |-> [Error |-> <<>>, Warning |-> <<>>]]

\* the ai section a whole run is checked with: the credential in the
\* endpoint for variant A, in a header for variants B and C
RunAI(tag) ==
    [Provider |-> tag,
     PromptTemplate |-> <<"Rules:", RulesPH, "Code:", CodePH>>,
     Gemini |-> ProviderConfig(<<"https://gemini?key=", KeyPH>>,
                               [k \in {"Content-Type"} |-> <<"application/json">>]),
     OpenAI |-> ProviderConfig(<<"https://openai">>,
                               [k \in {"Authorization"} |-> <<"Bearer ", KeyPH>>]),
     Anthropic |-> ProviderConfig(<<"https://anthropic">>,
                                  [k \in {"x-api-key"} |-> <<KeyPH>>])]

MkConfig(inc, exc, tag, sev) ==
    [IncludedFiles |-> inc, ExcludedFiles |-> exc, AI |-> RunAI(tag), Severity |-> sev]

\* include / exclude sets of the configurations a whole run is checked with
RunIncludes == {<<>>, <<"*.go">>, <<"**">>, <<"*.go", "[">>, <<"[", "*.go">>}

RunExcludes == {<<>>, <<"*_test.go">>, <<"*_test.go", "[">>}

RunConfigs == {MkConfig(inc, exc, tag, sev) :
                 inc \in RunIncludes, exc \in RunExcludes,
                 tag \in ProviderTags, sev \in Severities}

\* the configuration document at INPUT_CONFIG-PATH
ConfigFiles == {[status |-> "ok", content |-> c] : c \in RunConfigs}
               \cup {[status |-> "unreadable", content |-> ZeroConfig],
                     [status |-> "malformed", content |-> ZeroConfig]}

\* the rules document at INPUT_RULES-PATH
RulesFiles == {[status |-> "ok", content |-> <<"R1">>],
               [status |-> "unreadable", content |-> <<>>]}

\* GITHUB_EVENT_PATH and the document it names
EventPayloads == {"unset", "unreadable", "malformed", "no pull_request.number", "pull_request.number"}

PRNumber == 7

\* GITHUB_REPOSITORY
RepoSlugs == {"", "owner", "owner/repo"}

\* INPUT_PR-NUMBER: unset, an integer, or text that is no integer
InputPRNumbers == {"", "5", "abc"}

\* strconv.Atoi on the values of InputPRNumbers
Atoi(str) ==
    IF str = "5" THEN [number |-> 5, err |-> NoError]
    ELSE [number |-> 0, err |-> "invalid syntax"]

\* a whole run is checked as the workflow runner starts it: the pull request
\* comes with the event payload and INPUT_PR-NUMBER is not set
Environments ==
    [githubToken : {"", "ghp_token"}, aiAPIKey : {"", "ai_key"},
     configFile : ConfigFiles, rulesFile : RulesFiles,
     inputPRNumber : {""},
     eventPayload : EventPayloads, repository : RepoSlugs]

\* the files the source-control host lists; Patch is a pointer the host
\* leaves nil for files without a textual diff
HostFilesOf(n) == {[Filename |-> n, Patch |-> PatchOf[n]], [Filename |-> n, Patch |-> NilPatch]}

\* the files of the pull requests a whole run is checked with, in the path
\* order in which the host lists them
RunFileOrder == <<"README.md", "main.go", "main_test.go">>

RunFileNames == Range(RunFileOrder)

FilePosition(n) == CHOOSE i \in 1..Len(RunFileOrder) : RunFileOrder[i] = n

HostListings ==
    {s \in BoundedSeq(UNION {HostFilesOf(n) : n \in RunFileNames}, MaxFiles) :
        \A i, j \in 1..Len(s) :
            i < j => FilePosition(s[i].Filename) < FilePosition(s[j].Filename)}

(***************************************************************************)
(* State.                                                                  *)
(***************************************************************************)
VARIABLES env, pc, githubToken, aiAPIKey, config, rules, provider, prNumber,
          repoInfo, changedFiles, filesToAnalyze, idx, results, calls,
          fetches, posts, exitCode, exitAt, lastCall

vars == <<lastCall, env, pc, githubToken, aiAPIKey, config, rules, provider, prNumber,
          repoInfo, changedFiles, filesToAnalyze, idx, results, calls,
          fetches, posts, exitCode, exitAt>>

\* the locals of main() before its first statement, all at their zero value
\* lastCall is the record of the latest analyzePatch call a specification
\* observes: what went in, the request that was built, what the transport
\* answered and what the call returned
NoCall == [made |-> FALSE]

ZeroLocals ==
    /\ githubToken = ""
    /\ aiAPIKey = ""
    /\ config = ZeroConfig
    /\ rules = <<>>
    /\ provider = ""
    /\ prNumber = 0
    /\ repoInfo = <<"", "">>
    /\ changedFiles = <<>>
    /\ filesToAnalyze = <<>>
    /\ idx = 1
    /\ results = <<>>
    /\ calls = <<>>
    /\ fetches = 0
    /\ posts = <<>>
    /\ exitCode = NotExited
    /\ exitAt = ""
    /\ lastCall = NoCall

Init ==
    /\ env \in Environments
    /\ pc = "githubToken"
    /\ ZeroLocals

\* os.Exit(code), or the runtime ending the process on a panic
Exit(code, at) ==
    /\ pc' = "done"
    /\ exitCode' = code
    /\ exitAt' = at

Goto(label) ==
    /\ pc' = label
    /\ UNCHANGED <<exitCode, exitAt>>

\* main.go:335-339
CheckGithubToken ==
    /\ pc = "githubToken"
    /\ githubToken' = env.githubToken
    /\ IF env.githubToken = "" THEN Exit(1, "githubToken") ELSE Goto("aiAPIKey")
    /\ UNCHANGED <<lastCall, env, aiAPIKey, config, rules, provider, prNumber, repoInfo,
                   changedFiles, filesToAnalyze, idx, results, calls, fetches, posts>>

\* the AI credential check that lets an empty credential through
CheckAIKeyNoExit ==
    /\ pc = "aiAPIKey"
    /\ aiAPIKey' = env.aiAPIKey
    /\ Goto("loadConfig")
    /\ UNCHANGED <<lastCall, env, githubToken, config, rules, provider, prNumber, repoInfo,
                   changedFiles, filesToAnalyze, idx, results, calls, fetches, posts>>

\* main.go:341-345
CheckAIKey ==
    /\ pc = "aiAPIKey"
    /\ aiAPIKey' = env.aiAPIKey
    /\ IF env.aiAPIKey = "" THEN Exit(1, "aiAPIKey") ELSE Goto("loadConfig")
    /\ UNCHANGED <<lastCall, env, githubToken, config, rules, provider, prNumber, repoInfo,
                   changedFiles, filesToAnalyze, idx, results, calls, fetches, posts>>

\* loadConfig (main.go:437-448): the file must be readable and well-formed
loadConfig(file) ==
    IF file.status = "ok"
    THEN [config |-> file.content, err |-> NoError]
    ELSE [config |-> ZeroConfig, err |-> file.status]

\* main.go:347-361
LoadConfig ==
    /\ pc = "loadConfig"
    /\ LET r == loadConfig(env.configFile) IN
         IF r.err # NoError
         THEN Exit(1, "loadConfig") /\ UNCHANGED config
         ELSE Goto("readRulesFile") /\ config' = r.config
    /\ UNCHANGED <<lastCall, env, githubToken, aiAPIKey, rules, provider, prNumber, repoInfo,
                   changedFiles, filesToAnalyze, idx, results, calls, fetches, posts>>

\* readRulesFile (main.go:450-456)
readRulesFile(file) ==
    IF file.status = "ok"
    THEN [rules |-> file.content, err |-> NoError]
    ELSE [rules |-> <<>>, err |-> file.status]

\* main.go:363-367
ReadRules ==
    /\ pc = "readRulesFile"
    /\ LET r == readRulesFile(env.rulesFile) IN
         IF r.err # NoError
         THEN Exit(1, "readRulesFile") /\ UNCHANGED rules
         ELSE Goto("selectProvider") /\ rules' = r.rules
    /\ UNCHANGED <<lastCall, env, githubToken, aiAPIKey, config, provider, prNumber, repoInfo,
                   changedFiles, filesToAnalyze, idx, results, calls, fetches, posts>>

\* main.go:369-380
SelectProvider ==
    /\ pc = "selectProvider"
    /\ IF config.AI.Provider \in SupportedProviders
       THEN Goto("getPullRequestNumber") /\ provider' = config.AI.Provider
       ELSE Exit(1, "selectProvider") /\ UNCHANGED provider
    /\ UNCHANGED <<lastCall, env, githubToken, aiAPIKey, config, rules, prNumber, repoInfo,
                   changedFiles, filesToAnalyze, idx, results, calls, fetches, posts>>

\* getPullRequestNumber (main.go:458-477): a payload without the
\* pull_request.number field decodes to the zero number, without error
getPullRequestNumber(payload) ==
    CASE payload = "unset" -> [number |-> 0, err |-> "GITHUB_EVENT_PATH is not set"]
      [] payload = "unreadable" -> [number |-> 0, err |-> "read"]
      [] payload = "malformed" -> [number |-> 0, err |-> "unmarshal"]
      [] payload = "no pull_request.number" -> [number |-> 0, err |-> NoError]
      [] OTHER -> [number |-> PRNumber, err |-> NoError]

\* main.go:391-395
GetPullRequestNumber ==
    /\ pc = "getPullRequestNumber"
    /\ LET r == getPullRequestNumber(env.eventPayload) IN
         IF r.err # NoError
         THEN Exit(1, "getPullRequestNumber") /\ UNCHANGED prNumber
         ELSE Goto("getRepoInfo") /\ prNumber' = r.number
    /\ UNCHANGED <<lastCall, env, githubToken, aiAPIKey, config, rules, provider, repoInfo,
                   changedFiles, filesToAnalyze, idx, results, calls, fetches, posts>>

\* strings.Split(repoSlug, "/") on the slugs of RepoSlugs
SplitSlug(repoSlug) ==
    CASE repoSlug = "" -> <<"">>
      [] repoSlug = "owner" -> <<"owner">>
      [] OTHER -> <<"owner", "repo">>

\* getRepoInfo (main.go:479-483) and its call (main.go:397): parts[1] on a
\* slug without a "/" is an index out of range, which ends the process
GetRepoInfo ==
    /\ pc = "getRepoInfo"
    /\ LET parts == SplitSlug(env.repository) IN
         IF Len(parts) < 2
         THEN Exit(PanicStatus, "getRepoInfo") /\ UNCHANGED repoInfo
         ELSE Goto("getChangedFiles") /\ repoInfo' = <<parts[1], parts[2]>>
    /\ UNCHANGED <<lastCall, env, githubToken, aiAPIKey, config, rules, provider, prNumber,
                   changedFiles, filesToAnalyze, idx, results, calls, fetches, posts>>

\* what client.PullRequests.ListFiles can answer: an error, or (for an
\* existing pull request) a listing
ListFilesAnswers(number) ==
    {[files |-> <<>>, err |-> "list files failed"]}
    \cup (IF number = 0 THEN {} ELSE {[files |-> l, err |-> NoError] : l \in HostListings})

\* getChangedFiles (main.go:485-499) and its call (main.go:399-403):
\* *file.Patch on a nil Patch is a nil dereference, which ends the process
GetChangedFiles ==
    /\ pc = "getChangedFiles"
    /\ fetches' = fetches + 1
    /\ \E answer \in ListFilesAnswers(prNumber) :
         IF answer.err # NoError
         THEN Exit(1, "getChangedFiles") /\ UNCHANGED changedFiles
         ELSE IF \E i \in 1..Len(answer.files) : answer.files[i].Patch = NilPatch
         THEN Exit(PanicStatus, "getChangedFiles") /\ UNCHANGED changedFiles
         ELSE Goto("filterFiles") /\ changedFiles' = answer.files
    /\ UNCHANGED <<lastCall, env, githubToken, aiAPIKey, config, rules, provider, prNumber,
                   repoInfo, filesToAnalyze, idx, results, calls, posts>>

\* main.go:405-411
FilterFiles ==
    /\ pc = "filterFiles"
    /\ LET r == filterFiles(changedFiles, config) IN
         IF r.err # NoError
         THEN Exit(1, "filterFiles") /\ UNCHANGED filesToAnalyze
         ELSE Goto("loop") /\ filesToAnalyze' = r.files
    /\ UNCHANGED <<lastCall, env, githubToken, aiAPIKey, config, rules, provider, prNumber,
                   repoInfo, changedFiles, idx, results, calls, fetches, posts>>

\* one iteration of the loop that ends the loop at the first failed call
AnalyzeFileBreakOnError ==
    /\ pc = "loop"
    /\ idx <= Len(filesToAnalyze)
    /\ \E resp \in Responses :
         LET file == filesToAnalyze[idx]
             analysis == analyzePatch(file.Patch, config, rules, aiAPIKey, provider, resp)
             ok == analysis.err = NoError
         IN  /\ calls' = Append(calls, [Filename |-> file.Filename, Patch |-> file.Patch,
                                        ok |-> ok, issues |-> analysis.issues])
             /\ results' = IF ok
                           THEN Append(results, [Filename |-> file.Filename,
                                                 Issues |-> analysis.issues])
                           ELSE results
             /\ idx' = IF ok THEN idx + 1 ELSE Len(filesToAnalyze) + 1
    /\ Goto("loop")
    /\ UNCHANGED <<lastCall, env, githubToken, aiAPIKey, config, rules, provider, prNumber,
                   repoInfo, changedFiles, filesToAnalyze, fetches, posts>>

\* one iteration of the loop that records a failed file with no issues
AnalyzeFileZeroOut ==
    /\ pc = "loop"
    /\ idx <= Len(filesToAnalyze)
    /\ \E resp \in Responses :
         LET file == filesToAnalyze[idx]
             analysis == analyzePatch(file.Patch, config, rules, aiAPIKey, provider, resp)
             ok == analysis.err = NoError
         IN  /\ calls' = Append(calls, [Filename |-> file.Filename, Patch |-> file.Patch,
                                        ok |-> ok, issues |-> analysis.issues])
             /\ results' = Append(results, [Filename |-> file.Filename,
                                            Issues |-> analysis.issues])
    /\ idx' = idx + 1
    /\ Goto("loop")
    /\ UNCHANGED <<lastCall, env, githubToken, aiAPIKey, config, rules, provider, prNumber,
                   repoInfo, changedFiles, filesToAnalyze, fetches, posts>>

\* one iteration of the loop that treats a failed call as fatal
AnalyzeFileAbortOnError ==
    /\ pc = "loop"
    /\ idx <= Len(filesToAnalyze)
    /\ \E resp \in Responses :
         LET file == filesToAnalyze[idx]
             analysis == analyzePatch(file.Patch, config, rules, aiAPIKey, provider, resp)
             ok == analysis.err = NoError
         IN  /\ calls' = Append(calls, [Filename |-> file.Filename, Patch |-> file.Patch,
                                        ok |-> ok, issues |-> analysis.issues])
             /\ results' = IF ok
                           THEN Append(results, [Filename |-> file.Filename,
                                                 Issues |-> analysis.issues])
                           ELSE results
             /\ IF ok THEN Goto("loop") ELSE Exit(1, "analyzePatch")
    /\ idx' = idx + 1
    /\ UNCHANGED <<lastCall, env, githubToken, aiAPIKey, config, rules, provider, prNumber,
                   repoInfo, changedFiles, filesToAnalyze, fetches, posts>>

\* one iteration of the loop of main.go:413-424: one Analyze call for the
\* file at idx; calls is the log of the calls made and of what each returned
AnalyzeFile ==
    /\ pc = "loop"
    /\ idx <= Len(filesToAnalyze)
    /\ \E resp \in Responses :
         LET file == filesToAnalyze[idx]
             analysis == analyzePatch(file.Patch, config, rules, aiAPIKey, provider, resp)
             ok == analysis.err = NoError
         IN  /\ calls' = Append(calls, [Filename |-> file.Filename, Patch |-> file.Patch,
                                        ok |-> ok, issues |-> analysis.issues])
             /\ results' = IF ok
                           THEN Append(results, [Filename |-> file.Filename,
                                                 Issues |-> analysis.issues])
                           ELSE results
    /\ idx' = idx + 1
    /\ Goto("loop")
    /\ UNCHANGED <<lastCall, env, githubToken, aiAPIKey, config, rules, provider, prNumber,
                   repoInfo, changedFiles, filesToAnalyze, fetches, posts>>

\* the same iteration with the call recorded in lastCall, for the
\* specification that checks analyzePatch and the adapters on their own
AnalyzeFileObserved ==
    /\ pc = "loop"
    /\ idx <= Len(filesToAnalyze)
    /\ \E resp \in AdapterResponses :
         LET file == filesToAnalyze[idx]
             prompt == buildPrompt(config.AI.PromptTemplate, rules, file.Patch)
             analysis == analyzePatch(file.Patch, config, rules, aiAPIKey, provider, resp)
             ok == analysis.err = NoError
         IN  /\ calls' = Append(calls, [Filename |-> file.Filename, Patch |-> file.Patch,
                                        ok |-> ok, issues |-> analysis.issues])
             /\ results' = IF ok
                           THEN Append(results, [Filename |-> file.Filename,
                                                 Issues |-> analysis.issues])
                           ELSE results
             /\ lastCall' = [made |-> TRUE, provider |-> provider, patch |-> file.Patch,
                             prompt |-> prompt,
                             request |-> ProviderRequest(provider, config, prompt, aiAPIKey),
                             resp |-> resp, result |-> analysis]
    /\ idx' = idx + 1
    /\ Goto("loop")
    /\ UNCHANGED <<env, githubToken, aiAPIKey, config, rules, provider, prNumber,
                   repoInfo, changedFiles, filesToAnalyze, fetches, posts>>

\* postResults that posts nothing when there is no result to report
PostResultsSkipEmpty ==
    /\ pc = "loop"
    /\ idx > Len(filesToAnalyze)
    /\ \E ok \in BOOLEAN :
         IF results = <<>>
         THEN Goto("hasErrors") /\ UNCHANGED posts
         ELSE /\ posts' = Append(posts, [body |-> commentString(results, config), ok |-> ok])
              /\ IF ok THEN Goto("hasErrors") ELSE Exit(1, "postResults")
    /\ UNCHANGED <<lastCall, env, githubToken, aiAPIKey, config, rules, provider, prNumber,
                   repoInfo, changedFiles, filesToAnalyze, idx, results, calls, fetches>>

\* the loop is over; postResults (main.go:539-568) and its call
\* (main.go:426-430): posts is the log of the CreateComment calls
PostResults ==
    /\ pc = "loop"
    /\ idx > Len(filesToAnalyze)
    /\ \E ok \in BOOLEAN :
         /\ posts' = Append(posts, [body |-> commentString(results, config), ok |-> ok])
         /\ IF ok THEN Goto("hasErrors") ELSE Exit(1, "postResults")
    /\ UNCHANGED <<lastCall, env, githubToken, aiAPIKey, config, rules, provider, prNumber,
                   repoInfo, changedFiles, filesToAnalyze, idx, results, calls, fetches>>

\* main.go:432-435: exit 1 on a blocking issue, else main returns
DecideExit ==
    /\ pc = "hasErrors"
    /\ IF hasErrors(results, config) THEN Exit(1, "hasErrors") ELSE Exit(0, "return")
    /\ UNCHANGED <<lastCall, env, githubToken, aiAPIKey, config, rules, provider, prNumber,
                   repoInfo, changedFiles, filesToAnalyze, idx, results, calls,
                   fetches, posts>>

Next ==
    \/ CheckGithubToken
    \/ CheckAIKey
    \/ LoadConfig
    \/ ReadRules
    \/ SelectProvider
    \/ GetPullRequestNumber
    \/ GetRepoInfo
    \/ GetChangedFiles
    \/ FilterFiles
    \/ AnalyzeFile
    \/ PostResults
    \/ DecideExit

\* one run of main()
Spec == Init /\ [][Next]_vars

\* the same run when every call returns: the process is never suspended
\* for ever between two steps
FairSpec == Init /\ [][Next]_vars /\ WF_vars(Next)

(***************************************************************************)
(* filterFiles on its own: main() stands at the call of main.go:405 with   *)
(* any configuration of up to MaxPatterns include and exclude patterns and *)
(* any list of up to MaxFiles changed files.                               *)
(***************************************************************************)
FilterConfigs ==
    {MkConfig(inc, exc, "gemini", [Error |-> <<"naming">>, Warning |-> <<"style">>]) :
        inc \in BoundedSeq(Patterns, MaxPatterns), exc \in BoundedSeq(Patterns, MaxPatterns)}

FilterInputs ==
    BoundedSeq({[Filename |-> n, Patch |-> PatchOf[n]] : n \in FileNames}, MaxFiles)

InitFilter ==
    \E cfg \in FilterConfigs, files \in FilterInputs :
        /\ env = [githubToken |-> "ghp_token", aiAPIKey |-> "ai_key",
                  configFile |-> [status |-> "ok", content |-> cfg],
                  rulesFile |-> [status |-> "ok", content |-> <<"R1">>],
                  inputPRNumber |-> "",
                  eventPayload |-> "pull_request.number", repository |-> "owner/repo"]
        /\ pc = "filterFiles"
        /\ githubToken = "ghp_token"
        /\ aiAPIKey = "ai_key"
        /\ config = cfg
        /\ rules = <<"R1">>
        /\ provider = "gemini"
        /\ prNumber = PRNumber
        /\ repoInfo = <<"owner", "repo">>
        /\ changedFiles = files
        /\ filesToAnalyze = <<>>
        /\ idx = 1
        /\ results = <<>>
        /\ calls = <<>>
        /\ fetches = 1
        /\ posts = <<>>
        /\ exitCode = NotExited
        /\ exitAt = ""
        /\ lastCall = NoCall

NextFilter == FilterFiles

SpecFilter == InitFilter /\ [][NextFilter]_vars

(***************************************************************************)
(* The resolution of the pull-request number on its own: main() stands at  *)
(* the call of main.go:391 after a successful setup, with any setting of   *)
(* INPUT_PR-NUMBER, GITHUB_EVENT_PATH and GITHUB_REPOSITORY, and goes on   *)
(* up to the fetch of the changed files.                                   *)
(***************************************************************************)
InitPR ==
    \E cfg \in {c \in RunConfigs : c.AI.Provider \in SupportedProviders},
       input \in InputPRNumbers, payload \in EventPayloads, slug \in RepoSlugs :
        /\ env = [githubToken |-> "ghp_token", aiAPIKey |-> "ai_key",
                  configFile |-> [status |-> "ok", content |-> cfg],
                  rulesFile |-> [status |-> "ok", content |-> <<"R1">>],
                  inputPRNumber |-> input,
                  eventPayload |-> payload, repository |-> slug]
        /\ pc = "getPullRequestNumber"
        /\ githubToken = "ghp_token"
        /\ aiAPIKey = "ai_key"
        /\ config = cfg
        /\ rules = <<"R1">>
        /\ provider = cfg.AI.Provider
        /\ prNumber = 0
        /\ repoInfo = <<"", "">>
        /\ changedFiles = <<>>
        /\ filesToAnalyze = <<>>
        /\ idx = 1
        /\ results = <<>>
        /\ calls = <<>>
        /\ fetches = 0
        /\ posts = <<>>
        /\ exitCode = NotExited
        /\ exitAt = ""
        /\ lastCall = NoCall

NextPR ==
    \/ GetPullRequestNumber
    \/ GetRepoInfo
    \/ GetChangedFiles

SpecPR == InitPR /\ [][NextPR]_vars

(***************************************************************************)
(* analyzePatch and the provider adapters on their own: main() stands in   *)
(* the loop of main.go:413 with one file to analyze, any prompt template   *)
(* of up to MaxTemplate tokens, rules and patches with and without         *)
(* placeholders in them, and each provider with the credential placeholder *)
(* in its endpoint, in its headers, in both or in neither.                 *)
(***************************************************************************)
MaxTemplate == 3

Templates == BoundedSeq({RulesPH, CodePH, "T"}, MaxTemplate)

RulesTexts == {<<"R1">>, <<"use", CodePH, "blocks">>}

AnalyzePatches == {<<"P1">>, <<"P1", RulesPH, CodePH>>}

KeyHeaders ==
    [k \in {"Authorization", "X-Key"} |->
       IF k = "Authorization" THEN <<"Bearer ", KeyPH>> ELSE <<KeyPH, ":", KeyPH>>]

ProviderConfigs ==
    {ProviderConfig(<<"https://host/v1">>, NoHeaders),
     ProviderConfig(<<"https://host/v1">>, KeyHeaders),
     ProviderConfig(<<"https://host/v1?key=", KeyPH, "&k2=", KeyPH>>, KeyHeaders),
     ProviderConfig(<<BadURL>>, NoHeaders)}

AnalyzeConfigs ==
    {[IncludedFiles |-> <<>>, ExcludedFiles |-> <<>>,
      AI |-> [Provider |-> tag, PromptTemplate |-> tpl,
              Gemini |-> pc0, OpenAI |-> pc0, Anthropic |-> pc0],
      Severity |-> [Error |-> <<"naming">>, Warning |-> <<"style">>]] :
        tag \in SupportedProviders, tpl \in Templates, pc0 \in ProviderConfigs}

InitAnalyze ==
    \E cfg \in AnalyzeConfigs, r \in RulesTexts, patch \in AnalyzePatches :
        /\ env = [githubToken |-> "ghp_token", aiAPIKey |-> "ai_key",
                  configFile |-> [status |-> "ok", content |-> cfg],
                  rulesFile |-> [status |-> "ok", content |-> r],
                  inputPRNumber |-> "",
                  eventPayload |-> "pull_request.number", repository |-> "owner/repo"]
        /\ pc = "loop"
        /\ githubToken = "ghp_token"
        /\ aiAPIKey = "ai_key"
        /\ config = cfg
        /\ rules = r
        /\ provider = cfg.AI.Provider
        /\ prNumber = PRNumber
        /\ repoInfo = <<"owner", "repo">>
        /\ changedFiles = <<[Filename |-> "main.go", Patch |-> patch]>>
        /\ filesToAnalyze = changedFiles
        /\ idx = 1
        /\ results = <<>>
        /\ calls = <<>>
        /\ fetches = 1
        /\ posts = <<>>
        /\ exitCode = NotExited
        /\ exitAt = ""
        /\ lastCall = NoCall

NextAnalyze == AnalyzeFileObserved

SpecAnalyze == InitAnalyze /\ [][NextAnalyze]_vars

(***************************************************************************)
(* Vocabulary of the properties.                                           *)
(***************************************************************************)
\* the steps of main() that come before the analysis loop
PreLoopSteps == {"githubToken", "aiAPIKey", "loadConfig", "readRulesFile",
                 "selectProvider", "getPullRequestNumber", "getRepoInfo",
                 "getChangedFiles", "filterFiles"}

SetupSteps == {"githubToken", "aiAPIKey", "loadConfig", "readRulesFile", "selectProvider"}

\* the steps whose failure is fatal: setup, fetch, filter and the comment post
FatalSteps == PreLoopSteps \cup {"postResults"}

\* the call of filterFiles has returned
FilterDone == exitAt = "filterFiles" \/ (pc \notin PreLoopSteps /\ exitAt \notin PreLoopSteps)

\* the run got past filtering
PastFilter == pc \notin PreLoopSteps /\ exitAt \notin PreLoopSteps

Exited == pc = "done"

MatchesSome(path, patterns) ==
    \E i \in 1..Len(patterns) : patterns[i] \notin BadPatterns /\ path \in MatchTable[patterns[i]]

WellFormed(patterns) == \A i \in 1..Len(patterns) : patterns[i] \notin BadPatterns

Kept(file) ==
    /\ MatchesSome(file.Filename, config.IncludedFiles)
    /\ ~MatchesSome(file.Filename, config.ExcludedFiles)

\* evaluating the patterns in order for path arrives at a malformed one
ReachesBad(path, patterns) ==
    \E i \in 1..Len(patterns) :
        /\ patterns[i] \in BadPatterns
        /\ \A j \in 1..(i - 1) : ~MatchesSome(path, <<patterns[j]>>)

IsErrorIssue(issue) == issue.Type \in Range(config.Severity.Error)

\* some call that succeeded returned an issue of an error-set type
BlockingIssueFound ==
    \E i \in 1..Len(calls) :
        calls[i].ok /\ \E j \in 1..Len(calls[i].issues) : IsErrorIssue(calls[i].issues[j])

Names(files) == [i \in 1..Len(files) |-> files[i].Filename]

\* C1: when no include or exclude pattern is malformed, filterFiles returns,
\* without error, exactly the in-order subsequence of the changed files that
\* match at least one include pattern and no exclude pattern.
C1_FilterKeepsExactly ==
    (FilterDone /\ WellFormed(config.IncludedFiles) /\ WellFormed(config.ExcludedFiles))
        => /\ pc = "loop"
           /\ exitAt = ""
           /\ filesToAnalyze = SelectSeq(changedFiles, Kept)

C1_Witness ==
    /\ FilterDone
    /\ config.IncludedFiles = <<"*.go">>
    /\ config.ExcludedFiles = <<"*_test.go">>
    /\ Names(changedFiles) = <<"main_test.go", "main.go">>
    /\ Names(filesToAnalyze) = <<"main.go">>

\* C2 as stated: with an empty include set filterFiles returns an empty file
\* list (a normal return) whatever the exclude set contains.
C2_EmptyIncludeAlwaysReturnsEmptyList ==
    (FilterDone /\ config.IncludedFiles = <<>>)
        => (pc = "loop" /\ exitAt = "" /\ filesToAnalyze = <<>>)

\* C2 amended: with an empty include set filterFiles never keeps a file, and
\* it returns the empty list whenever no exclude pattern is malformed (with a
\* malformed exclude pattern the call may abort with the pattern error).
C2_EmptyIncludeKeepsNothing ==
    (FilterDone /\ config.IncludedFiles = <<>>)
        => /\ filesToAnalyze = <<>>
           /\ WellFormed(config.ExcludedFiles) => (pc = "loop" /\ exitAt = "")

C2_Witness ==
    /\ FilterDone
    /\ pc = "loop"
    /\ config.IncludedFiles = <<>>
    /\ config.ExcludedFiles = <<"*_test.go">>
    /\ Names(changedFiles) = <<"main.go", "README.md">>
    /\ filesToAnalyze = <<>>

\* some changed file makes the evaluation arrive at a malformed pattern
FilterReachesBad ==
    \E k \in 1..Len(changedFiles) :
        \/ ReachesBad(changedFiles[k].Filename, config.IncludedFiles)
        \/ ReachesBad(changedFiles[k].Filename, config.ExcludedFiles)

\* C3 as stated: a malformed pattern anywhere in the include or exclude set
\* makes filterFiles abort, and the run exit 1 with no Analyze call and no post.
C3_AnyMalformedPatternAborts ==
    (FilterDone /\ ~(WellFormed(config.IncludedFiles) /\ WellFormed(config.ExcludedFiles)))
        => (exitAt = "filterFiles" /\ exitCode = 1 /\ calls = <<>> /\ posts = <<>>)

\* C3 amended: filterFiles aborts exactly when, for some changed file, the
\* in-order evaluation of the include set or of the exclude set arrives at a
\* malformed pattern (no earlier pattern of that set matches the file); the
\* run then exits 1 with no Analyze call and no post.  A malformed pattern
\* that is never evaluated is not reported.
C3_ReachedMalformedPatternAborts ==
    FilterDone
        => /\ (exitAt = "filterFiles") <=> FilterReachesBad
           /\ (exitAt = "filterFiles")
                 => (Exited /\ exitCode = 1 /\ calls = <<>> /\ posts = <<>>
                     /\ filesToAnalyze = <<>>)

C3_Witness ==
    /\ exitAt = "filterFiles"
    /\ exitCode = 1
    /\ config.IncludedFiles = <<"*.go", "[">>
    /\ Names(changedFiles) = <<"README.md", "main.go">>

\* C4: hasErrors is true iff some issue of some file result has a type in
\* the configured error set.
C4_HasErrorsIffErrorTypeIssue ==
    hasErrors(results, config)
        <=> \E i \in 1..Len(results) :
               \E j \in 1..Len(results[i].Issues) : IsErrorIssue(results[i].Issues[j])

C4_Witness ==
    /\ exitAt = "hasErrors"
    /\ Len(results) = 2
    /\ Len(results[1].Issues) = 2
    /\ \A j \in 1..2 : ~IsErrorIssue(results[1].Issues[j])
    /\ results[1].Issues[1].Type \in Range(config.Severity.Warning)
    /\ results[1].Issues[2].Type = "misc"
    /\ Len(results[2].Issues) = 2
    /\ ~IsErrorIssue(results[2].Issues[1])
    /\ IsErrorIssue(results[2].Issues[2])

\* C5: a run that ends without a fatal setup, fetch, filter or post failure
\* exits 1 if a successfully analyzed file has an error-type issue and 0
\* otherwise; failed Analyze calls never change that.
C5_ExitStatusFollowsBlockingIssues ==
    (Exited /\ exitAt \notin FatalSteps)
        => exitCode = (IF BlockingIssueFound THEN 1 ELSE 0)

C5_Witness ==
    /\ Exited
    /\ exitCode = 0
    /\ Len(calls) = 2
    /\ \A i \in 1..2 : ~calls[i].ok
    /\ Len(posts) = 1

\* C6: every run ends with exit status 0 or 1.
C6_ExitStatusIsZeroOrOne == Exited => exitCode \in {0, 1}

\* C7: the Analyze calls made so far are, in order, one call per file of the
\* filtered list up to the loop position, and once the loop is left (whatever
\* calls failed) every file of the filtered list has had exactly one call.
C7_OneCallPerFileInOrder ==
    /\ Len(calls) <= Len(filesToAnalyze)
    /\ \A i \in 1..Len(calls) :
          /\ calls[i].Filename = filesToAnalyze[i].Filename
          /\ calls[i].Patch = filesToAnalyze[i].Patch
    /\ (pc = "loop" => Len(calls) = idx - 1)
    /\ (PastFilter /\ pc # "loop") => Len(calls) = Len(filesToAnalyze)

C7_Witness ==
    /\ Exited
    /\ Len(filesToAnalyze) = 2
    /\ Len(calls) = 2
    /\ ~calls[1].ok
    /\ calls[2].ok

SucceededCalls == SelectSeq(calls, LAMBDA c : c.ok)

\* C8: results is the in-order list of the calls that succeeded, each with
\* the issues its call returned, and nothing for a failed call; with a first
\* file failing and a second returning one error-type issue the report has
\* the second file's section only and the exit status is 1.
C8_ResultsAreSucceededCalls ==
    /\ results = [i \in 1..Len(SucceededCalls) |->
                     [Filename |-> SucceededCalls[i].Filename,
                      Issues |-> SucceededCalls[i].issues]]
    /\ (/\ Len(calls) = 2 /\ ~calls[1].ok /\ calls[2].ok
        /\ Len(calls[2].issues) = 1 /\ IsErrorIssue(calls[2].issues[1])
        /\ Len(posts) = 1)
          => /\ Len(posts[1].body.sections) = 1
             /\ posts[1].body.sections[1].filename = calls[2].Filename
             /\ Exited => exitCode = 1

C8_Witness ==
    /\ Exited
    /\ exitCode = 1
    /\ exitAt = "hasErrors"
    /\ Len(calls) = 2
    /\ ~calls[1].ok
    /\ calls[2].ok
    /\ Len(calls[2].issues) = 1
    /\ IsErrorIssue(calls[2].issues[1])
    /\ Len(results) = 1
    /\ Len(posts[1].body.sections) = 1

\* at most one comment, posted after the last Analyze call and before the
\* exit status of a run that got past filtering; a failed post exits 1; a
\* run that aborts before the loop posts nothing
PostOnceInPlace ==
    /\ Len(posts) <= 1
    /\ Len(posts) = 1 => (Len(calls) = Len(filesToAnalyze) /\ pc # "loop")
    /\ (Exited /\ PastFilter) => Len(posts) = 1
    /\ (Len(posts) = 1 /\ ~posts[1].ok) => (Exited /\ exitCode = 1)
    /\ exitAt \in PreLoopSteps => posts = <<>>

\* C9: on every run that gets past filtering exactly one comment is
\* eventually posted, after the last Analyze call and before the exit status
\* is decided, also with no file or no issue; a failed post exits 1; a run
\* aborted before the post posts nothing.
C9_ExactlyOneCommentPosted ==
    /\ []PostOnceInPlace
    /\ (pc = "loop") ~> (Len(posts) = 1)

C9_Witness ==
    /\ Exited
    /\ filesToAnalyze = <<>>
    /\ Len(posts) = 1
    /\ ~posts[1].ok
    /\ posts[1].body.sections = <<>>
    /\ exitCode = 1

\* the environment holds one of the fatal setup errors
SetupFails ==
    \/ env.githubToken = ""
    \/ env.aiAPIKey = ""
    \/ env.configFile.status # "ok"
    \/ env.rulesFile.status # "ok"
    \/ env.configFile.content.AI.Provider \notin SupportedProviders

\* C10: with a missing credential, an unreadable or malformed configuration,
\* an unreadable rules document or an unsupported provider tag the run never
\* leaves the setup steps: it exits 1 with no fetch, no Analyze call, no post.
C10_SetupErrorExitsBeforeAnyCall ==
    SetupFails
        => /\ pc \in SetupSteps \cup {"done"}
           /\ Exited => (exitCode = 1 /\ exitAt \in SetupSteps)
           /\ fetches = 0
           /\ calls = <<>>
           /\ posts = <<>>

C10_Witness ==
    /\ Exited
    /\ exitCode = 1
    /\ exitAt = "selectProvider"
    /\ env.configFile.status = "ok"
    /\ env.configFile.content.AI.Provider = "llama"
    /\ fetches = 0

\* the call of getPullRequestNumber has returned
PRNumberResolved ==
    /\ pc \notin SetupSteps \cup {"getPullRequestNumber"}
    /\ exitAt \notin SetupSteps

\* C11: the pull-request number is the integer given in INPUT_PR-NUMBER if
\* there is one, else pull_request.number of the event payload; when neither
\* gives a number the run exits 1 before the changed files are fetched.
C11_PRNumberFromInputElsePayload ==
    PRNumberResolved
        => IF Atoi(env.inputPRNumber).err = NoError
           THEN exitAt # "getPullRequestNumber"
                /\ prNumber = Atoi(env.inputPRNumber).number
           ELSE IF env.eventPayload = "pull_request.number"
           THEN exitAt # "getPullRequestNumber" /\ prNumber = PRNumber
           ELSE exitAt = "getPullRequestNumber" /\ exitCode = 1 /\ fetches = 0

(***************************************************************************)
(* analyzePatch and the adapters (SpecAnalyze).                            *)
(***************************************************************************)
CallMade == lastCall.made

\* the prompt with both placeholders filled in one pass over the template
buildPromptOnePass(template, rulesText, patch) ==
    LET filled(k) ==
          IF template[k] = RulesPH /\ RulesPH \notin Range(SubSeq(template, 1, k - 1))
          THEN rulesText
          ELSE IF template[k] = CodePH /\ CodePH \notin Range(SubSeq(template, 1, k - 1))
          THEN patch
          ELSE <<template[k]>>
        cat[k \in 0..Len(template)] == IF k = 0 THEN <<>> ELSE cat[k - 1] \o filled(k)
    IN  cat[Len(template)]

\* C12: the prompt built by analyzePatch is the template with the first
\* {rules} of the template replaced by the rules text and the first {code} of
\* the template replaced by the patch; later placeholders of the template stay
\* and the inserted rules text and patch appear unchanged.
C12_PromptFillsFirstPlaceholdersOfTemplate ==
    CallMade
        => lastCall.prompt
             = buildPromptOnePass(config.AI.PromptTemplate, rules, lastCall.patch)

\* the request was built and sent, and a response came back
ResponseReceived ==
    /\ CallMade
    /\ lastCall.request.err = NoError
    /\ lastCall.resp.sendOk

StatusError == "API request failed"

\* C13 as stated: Analyze reports the http-status error, and returns no result,
\* exactly when the status is outside 200..299; any 2xx status goes on to
\* decoding.
C13_StatusErrorIffOutside2xx ==
    ResponseReceived
        => (lastCall.result.err = StatusError <=> lastCall.resp.status \notin 200..299)

\* C13: in each adapter Analyze reports the http-status error, and returns no
\* result, exactly when the status is not 200 (OK): every status outside 2xx is
\* such an error and so is a 2xx status other than 200; a response with status
\* 200 goes on to decoding.
C13_StatusErrorIffNot200 ==
    ResponseReceived
        => /\ lastCall.result.err = StatusError <=> lastCall.resp.status # 200
           /\ lastCall.result.err = StatusError => lastCall.result.issues = <<>>
           /\ lastCall.resp.status = 200 /\ ~lastCall.resp.decodeOk
                 => lastCall.result.err
                      \in {"failed to decode gemini response",
                           "failed to decode openai response",
                           "failed to decode anthropic response"}

\* a 204 answer to variant A was turned into the http-status error
C13_Witness ==
    /\ ResponseReceived
    /\ lastCall.provider = "gemini"
    /\ lastCall.resp.status = 204
    /\ lastCall.result.err = StatusError

\* the answer text is a structured document, alone or between the markers,
\* with whitespace around it at most
Whitespace == {<<>>, <<NL>>}

IsDocument(text, d) ==
    \E pre \in {<<>>, <<FenceJson>>}, post \in {<<>>, <<Fence>>}, a, b \in Whitespace :
        text = pre \o a \o <<Json(d)>> \o b \o post

Parses(text) == \E d \in IssueLists : IsDocument(text, d)

\* the response holds an answer text: at least one candidate / choice /
\* content block, and for variant A a part in the first candidate
HoldsAnswer(p, resp) == resp.items >= 1 /\ (p = "gemini" => resp.parts >= 1)

\* C14: Analyze returns a result only if the request was sent, the status
\* check passed, the body decoded, the response held at least one candidate /
\* choice / content block and the stripped answer text parsed; a response
\* without such an item, and an answer text that does not parse, each give an
\* error, never an empty issue list, and the caller records no result for the
\* file.
C14_ResultOnlyFromParsedAnswer ==
    CallMade
        => LET resp == lastCall.resp
               decoded == /\ ResponseReceived
                          /\ resp.status = StatusOK
                          /\ resp.decodeOk
           IN  /\ lastCall.result.err = NoError
                     => /\ decoded
                        /\ HoldsAnswer(lastCall.provider, resp)
                        /\ Parses(resp.text)
               /\ decoded /\ ~HoldsAnswer(lastCall.provider, resp)
                     => lastCall.result.err # NoError
               /\ decoded /\ ~Parses(resp.text) => lastCall.result.err # NoError
               /\ lastCall.result.err # NoError
                     => /\ lastCall.result.issues = <<>>
                        /\ results = <<>>
                        /\ calls[Len(calls)].ok = FALSE

\* variant B got a 200 response without choices and the call failed
C14_Witness ==
    /\ ResponseReceived
    /\ lastCall.provider = "openai"
    /\ lastCall.resp.status = StatusOK
    /\ lastCall.resp.decodeOk
    /\ lastCall.resp.items = 0
    /\ lastCall.result.err = "no choices found in openai response"
    /\ results = <<>>

\* the call got as far as the answer text
AnswerExtracted ==
    /\ ResponseReceived
    /\ lastCall.resp.status = StatusOK
    /\ lastCall.resp.decodeOk
    /\ HoldsAnswer(lastCall.provider, lastCall.resp)

Fenced(d) == <<FenceJson, NL, Json(d), NL, Fence>>

\* the text left of an answer text by the three steps in their order: the
\* opening marker goes if the text starts with it, then the closing marker
\* if what is left ends with it, then the whitespace around the rest
Stripped(text) ==
    LET a == IF text # <<>> /\ Head(text) = FenceJson THEN Tail(text) ELSE text
        b == IF a # <<>> /\ a[Len(a)] = Fence THEN SubSeq(a, 1, Len(a) - 1) ELSE a
        lo == IF \A i \in 1..Len(b) : b[i] = NL THEN Len(b) + 1
              ELSE CHOOSE i \in 1..Len(b) : b[i] # NL /\ \A j \in 1..(i - 1) : b[j] = NL
        hi == IF \A i \in 1..Len(b) : b[i] = NL THEN Len(b)
              ELSE CHOOSE i \in 1..Len(b) : b[i] # NL /\ \A j \in (i + 1)..Len(b) : b[j] = NL
    IN  SubSeq(b, lo, hi)

\* C15: the adapters parse the answer text with a leading json marker
\* removed, then a trailing marker removed, then the surrounding whitespace
\* trimmed; so the answer text marker, newline, D, newline, marker gives the
\* same AnalysisResult as the answer text D alone.
C15_FencedAnswerParsesAsDocument ==
    AnswerExtracted
        => LET text == lastCall.resp.text
               rest == Stripped(text)
           IN  /\ IF Len(rest) = 1 /\ rest[1].t = "json"
                  THEN lastCall.result = [issues |-> rest[1].issues, err |-> NoError]
                  ELSE lastCall.result.err = "failed to unmarshal analysis result"
               /\ \A d \in IssueLists :
                     text \in {Fenced(d), <<Json(d)>>}
                         => /\ lastCall.result = [issues |-> d, err |-> NoError]
                            /\ \A p \in SupportedProviders :
                                  Analyze(p, [lastCall.resp EXCEPT !.text = Fenced(d)])
                                    = Analyze(p, [lastCall.resp EXCEPT !.text = <<Json(d)>>])
               /\ text # <<>> /\ Head(text) = NL /\ FenceJson \in Range(text)
                     => lastCall.result.err # NoError

\* a fenced one-issue document came back and was parsed into that issue
C15_Witness ==
    /\ AnswerExtracted
    /\ \E d \in IssueLists :
          /\ Len(d) = 1
          /\ lastCall.resp.text = Fenced(d)
          /\ lastCall.result = [issues |-> d, err |-> NoError]
          /\ results = <<[Filename |-> "main.go", Issues |-> d]>>

\* the response is a success payload with an answer text in the answer field
\* of every variant
SuccessPayload(resp) ==
    /\ resp.sendOk
    /\ resp.status = StatusOK
    /\ resp.decodeOk
    /\ resp.items >= 1
    /\ resp.parts >= 1

\* C16: for the same patch, prompt and credential and a success payload with
\* the same answer text, the three variants return the same outcome: the same
\* issues in the same order, or an error in all three.
C16_VariantsAgreeOnAnswerText ==
    CallMade /\ SuccessPayload(lastCall.resp)
        => \A p \in SupportedProviders :
             LET other == ProviderAnalyze(p, config, lastCall.prompt, aiAPIKey, lastCall.resp)
             IN  /\ other.issues = lastCall.result.issues
                 /\ (other.err = NoError) <=> (lastCall.result.err = NoError)

\* variant A parsed a fenced answer into an issue, as B and C do
C16_Witness ==
    /\ CallMade
    /\ lastCall.provider = "gemini"
    /\ SuccessPayload(lastCall.resp)
    /\ lastCall.request.err = NoError
    /\ lastCall.resp.text # <<>> /\ Head(lastCall.resp.text) = FenceJson
    /\ Len(lastCall.result.issues) = 1
    /\ lastCall.result.err = NoError

\* a text with every credential placeholder replaced by the credential
WithCredential(text, apiKey) ==
    [i \in 1..Len(text) |-> IF text[i] = KeyPH THEN apiKey ELSE text[i]]

\* the configuration section of the provider of the latest call
CallConfig ==
    CASE lastCall.provider = "gemini" -> config.AI.Gemini
      [] lastCall.provider = "openai" -> config.AI.OpenAI
      [] OTHER -> config.AI.Anthropic

HeadersWithCredential ==
    /\ DOMAIN lastCall.request.headers = DOMAIN CallConfig.Headers
    /\ \A k \in DOMAIN CallConfig.Headers :
          lastCall.request.headers[k] = WithCredential(CallConfig.Headers[k], aiAPIKey)

\* C17: in variants B and C every occurrence of the credential placeholder in
\* every configured header value is replaced by the credential; in variant A
\* the placeholder is replaced both in the endpoint and in the configured
\* header values; no request goes out with a literal placeholder there.
C17_CredentialReplacesEveryPlaceholder ==
    ResponseReceived
        => /\ HeadersWithCredential
           /\ \A k \in DOMAIN lastCall.request.headers :
                 KeyPH \notin Range(lastCall.request.headers[k])
           /\ lastCall.provider = "gemini"
                 => /\ lastCall.request.endpoint
                         = WithCredential(CallConfig.APIEndpoint, aiAPIKey)
                    /\ KeyPH \notin Range(lastCall.request.endpoint)

(***************************************************************************)
(* The report (Spec).                                                      *)
(***************************************************************************)
Posted == Len(posts) >= 1

Report == posts[1].body

HasIssues(r) == Len(r.Issues) > 0

ResultsWithIssues == SelectSeq(results, HasIssues)

\* the lines of a section are the issues of the result, one for one
LinesOf(section, result) ==
    /\ Len(section.lines) = Len(result.Issues)
    /\ \A j \in 1..Len(result.Issues) :
          /\ section.lines[j].type = result.Issues[j].Type
          /\ section.lines[j].message = result.Issues[j].Message
          /\ section.lines[j].suggestion = result.Issues[j].Suggestion

\* C18: the report starts with the top-level heading and then has one
\* subsection per file result with at least one issue, in result order and
\* headed by the filename; a result without issues gives no subsection, and
\* with no result that has issues the report is the heading alone.
C18_ReportHasSectionPerResultWithIssues ==
    Posted
        => /\ Report.heading = Heading
           /\ Len(Report.sections) = Len(ResultsWithIssues)
           /\ \A i \in 1..Len(ResultsWithIssues) :
                 /\ Report.sections[i].filename = ResultsWithIssues[i].Filename
                 /\ LinesOf(Report.sections[i], ResultsWithIssues[i])
           /\ (\A i \in 1..Len(results) : results[i].Issues = <<>>)
                 => Report = [heading |-> Heading, sections |-> <<>>]

\* of two results the first had no issue: the report has the one section of
\* the second
C18_Witness ==
    /\ Posted
    /\ Len(results) = 2
    /\ results[1].Issues = <<>>
    /\ results[2].Issues # <<>>
    /\ Len(Report.sections) = 1
    /\ Report.sections[1].filename = results[2].Filename

\* the lines of the report
LinesOfReport ==
    UNION {Range(Report.sections[i].lines) : i \in 1..Len(Report.sections)}

\* C19: an issue is rendered with the error glyph iff its type is in the
\* error set; a type in neither set is rendered with the warning glyph and
\* does not block; so the posted report has an error glyph line iff the run
\* exits 1 for a blocking issue.
C19_ErrorGlyphIffBlocking ==
    Posted
        => /\ \A l \in LinesOfReport :
                 /\ l.icon = ErrorIcon <=> l.type \in Range(config.Severity.Error)
                 /\ l.icon # ErrorIcon => l.icon = WarningIcon
           /\ (\E l \in LinesOfReport : l.icon = ErrorIcon) <=> hasErrors(results, config)
           /\ (posts[1].ok /\ Exited)
                 => ((\E l \in LinesOfReport : l.icon = ErrorIcon)
                       <=> (exitCode = 1 /\ exitAt = "hasErrors"))

\* a report whose only line is an issue of a type in neither set: warning
\* glyph, exit status 0
C19_Witness ==
    /\ Posted
    /\ posts[1].ok
    /\ Exited
    /\ exitCode = 0
    /\ \E l \in LinesOfReport :
          /\ l.type \notin Range(config.Severity.Error) \cup Range(config.Severity.Warning)
          /\ l.icon = WarningIcon

====
